---- MODULE Spec2Model ----
(***************************************************************************)
(* The CFP feature-tensor codec session (CFP_CODEC) of                      *)
(* compressai_vision/codecs/idc/cfp_codec.py as a state machine: the        *)
(* constructor, reset, encode and decode, one action per step of each call. *)
(* The header (SequenceParameterSet), the two coding engines, clustering    *)
(* and suppression live in modules that are imported by cfp_codec.py        *)
(* (.hls, .intra, .inter, .tools); they are modelled from the design        *)
(* document and are marked so where they are defined.                       *)
(***************************************************************************)
EXTENDS Integers, Sequences, FiniteSets, TLC

\* ------------------------------------------------------------------ bounds
\* Largest number of time steps of one tag of an encode input.
MaxFrames == 3
\* Largest number of reset/encode/decode calls made on one session.
MaxCalls == 3

\* ------------------------------------------------------- small input sets
\* An optional value: <<>> is Python's None, <<v>> is the value v.
None == <<>>
Some(v) == <<v>>

\* Tag names of a feature pyramid, in the caller's insertion order.
TagOrders == {<< >>, <<"p2">>, <<"p2", "p3">>}

\* (channels, height, width) of the tensors of one input.
Shapes == {<<1, 2, 2>>, <<2, 3, 2>>, <<1, 1, 2>>}

\* A tensor of size (n, c, h, w); v tells the caller's values from
\* interpolated ones.
Tensor(n, c, h, w, v) == [n |-> n, c |-> c, h |-> h, w |-> w, v |-> v]

\* The inputs encode is called with: input["data"] as the sequence of its
\* (tag, tensor) items, and the two size entries digest() reads.
Inputs ==
  { [data |-> [i \in 1..Len(tags) |->
                 [tag |-> tags[i],
                  t   |-> Tensor(fr[i], sh[1], sh[2], sh[3], "orig")]],
     org_input_size |-> [height |-> 8, width |-> 6],
     input_size     |-> [height |-> 4, width |-> 4]] :
      tags \in TagOrders, sh \in Shapes, fr \in [1..2 -> 0..MaxFrames] }

NoInput == [data |-> << >>,
            org_input_size |-> [height |-> 0, width |-> 0],
            input_size     |-> [height |-> 0, width |-> 0]]

\* encoder_config values. The first set varies what encode reads, the
\* second what the constructor checks.
CodecConfigs ==
  [qp : {Some(30)}, qp_density : {1}, dc_qp_offset : {0},
   dc_qp_density_offset : {1}, n_cluster : {1},
   intra_period : {-1, 0, 1, 2}, downsample : BOOLEAN]

AllConfigs ==
  [qp : {None, Some(30)}, qp_density : {0, 1, 5, 6}, dc_qp_offset : {0},
   dc_qp_density_offset : {0, 1}, n_cluster : {-1, 0, 2},
   intra_period : {-1}, downsample : {FALSE}]

\* ------------------------------------------------------------------ state
VARIABLES
  enc_cfg,                  \* kwargs["encoder_config"]
  pc,                       \* where the caller / the running call is
  feature_set_order_count,  \* self.feature_set_order_count
  decoded_tensor_buffer,    \* self.decoded_tensor_buffer
  self_bitstream_fd,        \* self._bitstream_fd: "None", "open", "closed"
  file,                     \* the bitstream file on disk
  calls,                    \* calls begun on the session so far
  op,                       \* the running or last call: "none", "encode", "decode"
  input,                    \* the caller's mapping, as encode has left it
  input0,                   \* the caller's mapping as it was passed in
  nbframes,                 \* encode's local nbframes
  bytes_total,              \* encode's local bytes_total
  bytes_per_ftensor_set,    \* encode's local bytes_per_ftensor_set
  channel_collections_by_cluster,  \* encode's local: None while unbound
  sps,                      \* decode's local header, None before sps.read
  recon_ftensors,           \* decode's local: per tag index, the list of tensors
  ftensor_set_idx,          \* decode's loop index
  result,                   \* what the last call returned or raised
  trace,                    \* the I/O and engine calls of the running or last call
  written,                  \* what the encode call that wrote the file was given and chose
  sets_taken                \* sets encode's loop has taken up since the last reset()

session == <<feature_set_order_count, decoded_tensor_buffer, self_bitstream_fd>>
enc_locals == <<input, input0, nbframes, bytes_total, bytes_per_ftensor_set,
                channel_collections_by_cluster>>
dec_locals == <<sps, recon_ftensors, ftensor_set_idx>>
vars == <<enc_cfg, pc, session, file, calls, op, enc_locals, dec_locals,
          result, trace, written, sets_taken>>

\* --------------------------------------------------------------- helpers
RECURSIVE SumSeq(_)
SumSeq(s) == IF s = << >> THEN 0 ELSE s[1] + SumSeq(Tail(s))

SeqMin(s) == IF s = << >> THEN 0
             ELSE CHOOSE m \in {s[i] : i \in 1..Len(s)} :
                    \A i \in 1..Len(s) : m <= s[i]

\* One entry of the call log: a file operation or a call into a component.
\* ty is the coding type the call was made for ("-" when it has none), ref
\* tells whether the reference buffer was among the arguments.
Ev(name, ty, ref) == [ev |-> name, ty |-> ty, ref |-> ref]

Returned(value) == [outcome |-> "returned", error |-> "", value |-> Some(value)]
Raised(error)   == [outcome |-> "raised", error |-> error, value |-> None]
NoResult        == [outcome |-> "none", error |-> "", value |-> None]

\* FeatureTensorCodingType and its one-byte marker in the bitstream.
I_TYPE == "I_TYPE"
PB_TYPE == "PB_TYPE"
MarkerBytes == 1
MarkerOf(eFTCType) == IF eFTCType = I_TYPE THEN 0 ELSE 1
parse_feature_tensor_coding_type(entry) ==
  IF entry.marker = 0 THEN I_TYPE ELSE PB_TYPE

\* The dispatch tables: coding type -> engine.
encode_feature_tensor(eFTCType) ==
  IF eFTCType = I_TYPE THEN "intra_coding" ELSE "inter_coding"

\* decode_feature_tensor with the two engines exchanged.
decode_feature_tensor_swapped(eFTCType) ==
  IF eFTCType = I_TYPE THEN "inter_decoding" ELSE "intra_decoding"

decode_feature_tensor(eFTCType) ==
  IF eFTCType = I_TYPE THEN "intra_decoding" ELSE "inter_decoding"

\* The coding type an engine works in (and whose marker it writes or expects).
EngineType(engine) ==
  IF engine \in {"intra_coding", "intra_decoding"} THEN I_TYPE ELSE PB_TYPE

\* -------------------------------------------------------------- the file
NoFile == [exists |-> FALSE, sps |-> << >>, sets |-> << >>]
\* open(path, "wb") creates the file or truncates it.
OpenedForWriting == [exists |-> TRUE, sps |-> << >>, sets |-> << >>]
EntryBytes(entry) == MarkerBytes + entry.nbytes
FileSize(f) == Len(f.sps) + SumSeq([i \in 1..Len(f.sets) |-> EntryBytes(f.sets[i])])

\* -------------------------------------------------------- F.interpolate
\* Output size of F.interpolate with scale factor num/den on both spatial
\* dimensions: floor(size * scale).
Scaled(x, num, den) == (x * num) \div den
InterpolateFails(t, num, den) ==
  Scaled(t.h, num, den) = 0 \/ Scaled(t.w, num, den) = 0
Interpolate(t, num, den) ==
  [t EXCEPT !.h = Scaled(t.h, num, den), !.w = Scaled(t.w, num, den),
            !.v = "interp"]

\* ------------------------------------------------------------- __init__
\* ConstructorError without the assertion on qp.
ConstructorErrorNoQpCheck(cfg) ==
  IF ~(0 < cfg.qp_density /\ cfg.qp_density <= 5)
    THEN "AssertionError: 0 < QP_DENSITY <= 5"
  ELSE IF ~(cfg.qp_density + cfg.dc_qp_density_offset <= 5)
    THEN "AssertionError: DC_QP_DENSITY_OFFSET"
  ELSE ""

\* The first assertion of the constructor that fails, "" when none does.
ConstructorError(cfg) ==
  IF ~(0 < cfg.qp_density /\ cfg.qp_density <= 5)
    THEN "AssertionError: 0 < QP_DENSITY <= 5"
  ELSE IF ~(cfg.qp_density + cfg.dc_qp_density_offset <= 5)
    THEN "AssertionError: DC_QP_DENSITY_OFFSET"
  ELSE IF cfg.qp = None
    THEN "AssertionError: Please provide a QP value!"
  ELSE ""

\* reset(): the values it assigns to feature_set_order_count,
\* decoded_tensor_buffer and _bitstream_fd.
ResetCount == -1
\* reset without the assignment to feature_set_order_count.
reset_keeping_count ==
  /\ feature_set_order_count' = feature_set_order_count
  /\ decoded_tensor_buffer' = << >>
  /\ self_bitstream_fd' = "None"
reset ==
  /\ feature_set_order_count' = ResetCount
  /\ decoded_tensor_buffer' = << >>
  /\ self_bitstream_fd' = "None"

\* Before any encode call has opened the file.
NothingWritten ==
  [by |-> NoInput, coded |-> << >>, header |-> None, types |-> << >>,
   complete |-> FALSE]

TypeOK ==
  /\ pc \in {"new", "failed", "idle", "encode_loop", "decode_loop", "done"}
  /\ feature_set_order_count \in Int
  /\ self_bitstream_fd \in {"None", "open", "closed"}
  /\ calls \in 0..MaxCalls
  /\ op \in {"none", "encode", "decode"}

InitWith(configs) ==
  /\ enc_cfg \in configs
  /\ pc = "new"
  /\ feature_set_order_count = ResetCount
  /\ decoded_tensor_buffer = << >>
  /\ self_bitstream_fd = "None"
  /\ file = NoFile
  /\ calls = 0
  /\ op = "none"
  /\ input = NoInput
  /\ input0 = NoInput
  /\ nbframes = 0
  /\ bytes_total = 0
  /\ bytes_per_ftensor_set = << >>
  /\ channel_collections_by_cluster = None
  /\ sps = None
  /\ recon_ftensors = << >>
  /\ ftensor_set_idx = 0
  /\ result = NoResult
  /\ trace = << >>
  /\ written = NothingWritten
  /\ sets_taken = 0

Init == InitWith(CodecConfigs)
InitConfig == InitWith(AllConfigs)

\* CFP_CODEC(**kwargs): the assertions, then reset().
Construct ==
  /\ pc = "new"
  /\ IF ConstructorError(enc_cfg) # ""
       THEN /\ pc' = "failed"
            /\ result' = Raised(ConstructorError(enc_cfg))
            /\ UNCHANGED session
       ELSE /\ pc' = "idle"
            /\ reset
            /\ UNCHANGED result
  /\ UNCHANGED <<enc_cfg, file, calls, op, enc_locals, dec_locals, trace, written,
                 sets_taken>>

\* reset(), called between two calls.
Reset ==
  /\ pc = "idle"
  /\ calls < MaxCalls
  /\ calls' = calls + 1
  /\ reset
  /\ sets_taken' = 0
  /\ UNCHANGED <<enc_cfg, pc, file, op, enc_locals, dec_locals, result, trace, written>>

\* --------------------------------------------------------------- encode
\* The "Downsample" loop of encode: input["data"][tag] is replaced tag by
\* tag; F.interpolate raises on a tensor whose output would be empty, and
\* the tags before it have been replaced by then.
FirstFailing(data) ==
  LET bad == {i \in 1..Len(data) : InterpolateFails(data[i].t, 1, 2)}
  IN  IF bad = {} THEN 0 ELSE CHOOSE i \in bad : \A j \in bad : i <= j

DownsampleBefore(data, k) ==
  [i \in 1..Len(data) |->
     IF i < k THEN [data[i] EXCEPT !.t = Interpolate(data[i].t, 1, 2)]
     ELSE data[i]]

Downsampled(data) == DownsampleBefore(data, Len(data) + 1)

\* layer_nbframes and the assertion on it.
LayerNbframes(data) == [i \in 1..Len(data) |-> data[i].t.n]
SameNbframesUnchecked(data) == TRUE
SameNbframes(data) ==
  \A i \in 1..Len(data) : LayerNbframes(data)[i] = LayerNbframes(data)[1]

\* What encode raises before it opens the bitstream file, "" when nothing.
\* data is input["data"] after the downsample loop has run or stopped.
EncodeEntryError(cfg, data0) ==
  IF cfg.downsample /\ FirstFailing(data0) # 0
    THEN "RuntimeError: interpolate"
  ELSE IF ~SameNbframes(data0)
    THEN "AssertionError"
  ELSE IF data0 = << >>
    THEN "IndexError"
  ELSE ""

DataAfterDownsample(cfg, data0) ==
  IF ~cfg.downsample THEN data0
  ELSE IF FirstFailing(data0) # 0 THEN DownsampleBefore(data0, FirstFailing(data0))
  ELSE Downsampled(data0)

\* SequenceParameterSet.digest and .write: the header as the sequence of
\* the values written, one byte each.
SpsFlatten(data) ==
  [k \in 1..(2 * Len(data)) |->
     IF k % 2 = 1 THEN data[(k + 1) \div 2].t.h ELSE data[k \div 2].t.w]

SpsWrite(inp, n, qp, qp_density, downsample, dc_qp_offset, dc_qp_density_offset) ==
  << n, qp, qp_density, IF downsample THEN 1 ELSE 0, dc_qp_offset,
     dc_qp_density_offset,
     inp.org_input_size.height, inp.org_input_size.width,
     inp.input_size.height, inp.input_size.width,
     Len(inp.data) >> \o SpsFlatten(inp.data)

\* The values encode hands to sps.digest (**input) and to sps.write
\* (nbframes and the session's settings), by the header field they are for.
SpsArgs(inp, n, cfg) ==
  [nbframes |-> n,
   qp |-> cfg.qp[1],
   qp_density |-> cfg.qp_density,
   is_downsampled |-> cfg.downsample,
   dc_qp_offset |-> cfg.dc_qp_offset,
   dc_qp_density_offset |-> cfg.dc_qp_density_offset,
   org_input_height |-> inp.org_input_size.height,
   org_input_width |-> inp.org_input_size.width,
   input_height |-> inp.input_size.height,
   input_width |-> inp.input_size.width,
   size_of_feature_set |-> Len(inp.data)]

\* iterate_list_of_tensors: its own check, made when the loop asks for the
\* first item, and the number of items zip() yields.
IterateError(data) ==
  \E i \in 1..Len(data) : data[i].t.n # data[1].t.n
\* IterateCount with the last item dropped.
IterateCountShort(data) ==
  IF SeqMin(LayerNbframes(data)) = 0 THEN 0 ELSE SeqMin(LayerNbframes(data)) - 1
IterateCount(data) == SeqMin(LayerNbframes(data))
\* One time step of the input: per tag, a (c, h, w) tensor.
FeatureTensor(data) ==
  [i \in 1..Len(data) |->
     [tag |-> data[i].tag, c |-> data[i].t.c, h |-> data[i].t.h, w |-> data[i].t.w]]

\* CodingType with the count taken one too far.
CodingTypeOffByOne(intra_period, poc) ==
  IF intra_period = -1 THEN I_TYPE
  ELSE IF intra_period = 0 THEN "ZeroDivisionError"
  ELSE IF (poc + 1) % intra_period = 0 THEN I_TYPE ELSE PB_TYPE

\* The per-set type decision of encode; "ZeroDivisionError" when the
\* modulo cannot be taken.
CodingType(intra_period, poc) ==
  IF intra_period = -1 THEN I_TYPE
  ELSE IF intra_period = 0 THEN "ZeroDivisionError"
  ELSE IF intra_period > 0
    THEN (IF poc % intra_period = 0 THEN I_TYPE ELSE PB_TYPE)
  ELSE (IF poc % (-intra_period) = 0 THEN I_TYPE ELSE PB_TYPE)

\* search_for_N_clusters: the assignment computed for the set with this
\* frame-order count. With n_cluster <= 0 the design document does not say
\* what it does: it may return or raise.
search_for_N_clusters(poc, n_cluster) == [at |-> poc, n_cluster |-> n_cluster]
ClusterOutcomes(n_cluster) ==
  IF n_cluster > 0 THEN {"ok"} ELSE {"ok", "ValueError: n_cluster"}

\* feature_channel_suppression: for every tag the coding group covers
\* every original channel.
all_channels_coding_groups(feature_tensor) ==
  [i \in 1..Len(feature_tensor) |-> feature_tensor[i].c]

\* The call of feature_channel_suppression for a set of type ty: its
\* second argument is the assignment encode's local holds.
SuppressionEv(ty, ccbc) ==
  [ev |-> "feature_channel_suppression", ty |-> ty, ref |-> FALSE,
   with |-> ccbc[1]]

\* The payload size an engine writes for one set.
PayloadBytes(engine, feature_tensor) ==
  IF engine = "intra_coding"
    THEN SumSeq([i \in 1..Len(feature_tensor) |->
                   feature_tensor[i].h * feature_tensor[i].w])
    ELSE Len(feature_tensor)

\* intra_coding / inter_coding: the entry appended to the file, the marker
\* of the engine's type and the payload. The engine returns EntryBytes of it.
CodedEntry(engine, feature_tensor) ==
  [marker |-> MarkerOf(EngineType(engine)),
   groups |-> all_channels_coding_groups(feature_tensor),
   nbytes |-> PayloadBytes(engine, feature_tensor)]

\* The arguments encode passes to an engine: is the session's reference
\* buffer among them.
EncodePassesReference(engine) == FALSE

\* InitialBytesTotal with the header left out of the count.
InitialBytesTotalZero(hls_header_bytes) == 0
\* The value bytes_total starts from, given what sps.write returned.
InitialBytesTotal(hls_header_bytes) == hls_header_bytes

BitstreamPath == "bitstream.bin"

\* EncodeOpenTrace with the header never written.
EncodeOpenTraceNoHeader == << Ev("open", "-", FALSE) >>
\* What encode does with the file before its loop: it opens it and writes
\* the header.
EncodeOpenTrace == << Ev("open", "-", FALSE), Ev("sps.write", "-", FALSE) >>

\* LocalAtEntry with an assignment bound before the loop begins.
LocalBoundAtEntry == Some([at |-> 0, n_cluster |-> 1])
\* channel_collections_by_cluster when encode begins: the name is bound by
\* no statement before the loop, whatever earlier calls computed.
LocalAtEntry == None

\* encode, from its entry to the start of the loop (lines 156-208).
EncodeBegin(inp) ==
  LET data1 == DataAfterDownsample(enc_cfg, inp.data)
      err   == EncodeEntryError(enc_cfg, inp.data)
      inp1  == [inp EXCEPT !.data = data1]
      header == SpsWrite(inp1, LayerNbframes(data1)[1], enc_cfg.qp[1],
                         enc_cfg.qp_density, enc_cfg.downsample,
                         enc_cfg.dc_qp_offset, enc_cfg.dc_qp_density_offset)
  IN
  /\ pc = "idle"
  /\ calls < MaxCalls
  /\ calls' = calls + 1
  /\ op' = "encode"
  /\ input0' = inp
  /\ input' = inp1
  /\ bytes_per_ftensor_set' = << >>
  /\ channel_collections_by_cluster' = LocalAtEntry
  /\ IF err # ""
       THEN /\ pc' = "done"
            /\ result' = Raised(err)
            /\ trace' = << >>
            /\ nbframes' = 0
            /\ bytes_total' = 0
            /\ UNCHANGED <<session, file, written>>
       ELSE /\ pc' = "encode_loop"
            /\ result' = NoResult
            /\ nbframes' = LayerNbframes(data1)[1]
            /\ self_bitstream_fd' = "open"
            /\ file' = [OpenedForWriting EXCEPT !.sps = header]
            /\ bytes_total' = InitialBytesTotal(Len(header))
            /\ trace' = EncodeOpenTrace
            /\ written' = [by |-> inp, coded |-> data1,
                            header |-> Some(SpsArgs(inp1, LayerNbframes(data1)[1],
                                                    enc_cfg)),
                            types |-> << >>, complete |-> FALSE]
            /\ UNCHANGED <<feature_set_order_count, decoded_tensor_buffer>>
  /\ UNCHANGED <<enc_cfg, dec_locals, sets_taken>>

\* close_files(): closes the handle the session holds, when it holds one.
close_files(fd) == IF fd = "None" THEN "None" ELSE "closed"

\* The entry of bytes_per_ftensor_set for one set, and bytes_total after it.
BytesAppended(total, coded_ftensor_bytes) == total + coded_ftensor_bytes
BytesTotalAfterSet == 0

\* One pass of encode's loop over the time steps (lines 209-242), or the
\* exception that ends the call in it.
EncodeFeatureSet ==
  LET e    == Len(bytes_per_ftensor_set)
      ft   == FeatureTensor(input.data)
      gen  == e = 0 /\ IterateError(input.data)
      poc  == feature_set_order_count + 1
      ty   == CodingType(enc_cfg.intra_period, poc)
  IN
  /\ pc = "encode_loop"
  /\ gen \/ e < IterateCount(input.data)
  /\ \E oc \in (IF ~gen /\ ty = I_TYPE THEN ClusterOutcomes(enc_cfg.n_cluster)
                ELSE {"ok"}) :
       LET ccbc == IF ty = I_TYPE /\ oc = "ok"
                     THEN Some(search_for_N_clusters(poc, enc_cfg.n_cluster))
                     ELSE channel_collections_by_cluster
           err  == IF gen THEN "ValueError"
                   ELSE IF ty \notin {I_TYPE, PB_TYPE} THEN ty
                   ELSE IF oc # "ok" THEN oc
                   ELSE IF ccbc = None THEN "UnboundLocalError"
                   ELSE ""
           engine == encode_feature_tensor(ty)
           entry  == CodedEntry(engine, ft)
           called == IF gen \/ ty # I_TYPE THEN << >>
                     ELSE << Ev("search_for_N_clusters", ty, FALSE) >>
       IN
       IF err # ""
         THEN /\ pc' = "done"
              /\ result' = Raised(err)
              /\ feature_set_order_count' = IF gen THEN feature_set_order_count ELSE poc
              /\ trace' = trace \o called
              /\ sets_taken' = IF gen THEN sets_taken ELSE sets_taken + 1
              /\ UNCHANGED <<file, written, bytes_total, bytes_per_ftensor_set,
                             channel_collections_by_cluster>>
         ELSE /\ pc' = "encode_loop"
              /\ feature_set_order_count' = poc
              /\ channel_collections_by_cluster' = ccbc
              /\ file' = [file EXCEPT !.sets = Append(@, entry)]
              /\ bytes_per_ftensor_set' =
                   Append(bytes_per_ftensor_set,
                          BytesAppended(bytes_total, EntryBytes(entry)))
              /\ bytes_total' = BytesTotalAfterSet
              /\ written' = [written EXCEPT
                              !.types = Append(@, [ty |-> ty, k |-> sets_taken])]
              /\ sets_taken' = sets_taken + 1
              /\ trace' = trace \o called \o
                   << SuppressionEv(ty, ccbc),
                      Ev(engine, ty, EncodePassesReference(engine)) >>
              /\ UNCHANGED result
  /\ UNCHANGED <<enc_cfg, decoded_tensor_buffer, self_bitstream_fd, calls, op,
                 input, input0, nbframes, dec_locals>>

\* encode after its loop: close_files() and the return value (lines 244-249).
EncodeReturn ==
  /\ pc = "encode_loop"
  /\ Len(bytes_per_ftensor_set) = IterateCount(input.data)
  /\ ~(Len(bytes_per_ftensor_set) = 0 /\ IterateError(input.data))
  /\ pc' = "done"
  /\ self_bitstream_fd' = close_files(self_bitstream_fd)
  /\ trace' = Append(trace, Ev("close", "-", FALSE))
  /\ result' = Returned([bytes |-> bytes_per_ftensor_set, bitstream |-> BitstreamPath])
  /\ written' = [written EXCEPT !.complete = TRUE]
  /\ UNCHANGED <<enc_cfg, feature_set_order_count, decoded_tensor_buffer, file,
                 calls, op, enc_locals, dec_locals, sets_taken>>

\* --------------------------------------------------------------- decode
\* Number of header values before the per-tag sizes.
SpsFixedFields == 11

\* SequenceParameterSet.read: the header parsed from the values written by
\* SpsWrite, None when the file ends before the header does.
SpsRead(bytes) ==
  IF Len(bytes) < SpsFixedFields
       \/ Len(bytes) < SpsFixedFields + 2 * bytes[SpsFixedFields]
    THEN None
    ELSE Some([nbframes |-> bytes[1],
               qp |-> bytes[2],
               qp_density |-> bytes[3],
               is_downsampled |-> bytes[4] = 1,
               dc_qp_offset |-> bytes[5],
               dc_qp_density_offset |-> bytes[6],
               org_input_height |-> bytes[7],
               org_input_width |-> bytes[8],
               input_height |-> bytes[9],
               input_width |-> bytes[10],
               size_of_feature_set |-> bytes[SpsFixedFields],
               shapes |-> [i \in 1..bytes[SpsFixedFields] |->
                             [h |-> bytes[SpsFixedFields + 2 * i - 1],
                              w |-> bytes[SpsFixedFields + 2 * i]]]])

\* ftensor_tags: the temporary tag of the i-th tensor list is the integer
\* i - 1 (written here as its decimal string, so that it can be compared
\* with the caller's tag names).
ftensor_tag(i) == ToString(i - 1)

\* intra_decoding / inter_decoding: the tensors of one set, per tag index,
\* rebuilt from the set's coding groups and the header's sizes.
DecodedSet(header, entry) ==
  [i \in 1..Len(entry.groups) |->
     [c |-> entry.groups[i], h |-> header.shapes[i].h, w |-> header.shapes[i].w]]

\* The arguments decode passes to an engine: is the session's reference
\* buffer among them.
DecodePassesReference(engine) == FALSE

\* for tlist, item in zip(recon_ftensors.values(), res.values()): append.
ZipAppend(lists, res) ==
  [i \in 1..Len(lists) |->
     IF i <= Len(res) THEN Append(lists[i], res[i]) ELSE lists[i]]

\* torch.stack of one tag's list; it raises on an empty list.
StackFails(lists) == \E i \in 1..Len(lists) : lists[i] = << >>
Stack(tlist) == Tensor(Len(tlist), tlist[1].c, tlist[1].h, tlist[1].w, "recon")

\* DecodeUpsamples with the session's own setting taken into account.
DecodeUpsamplesEitherWay(header, cfg) == header.is_downsampled \/ cfg.downsample
\* DecodeUpsamples with the upsample left out.
DecodeNeverUpsamples(header, cfg) == FALSE
\* DecodeUpsamples deciding by the session's own setting.
DecodeUpsamplesByConfig(header, cfg) == cfg.downsample
\* Does decode upsample: the header's flag decides.
DecodeUpsamples(header, cfg) == header.is_downsampled

\* OutputSizes with height and width exchanged.
OutputSizesTransposed(header) ==
  [org_input_size |-> [height |-> header.org_input_width,
                       width  |-> header.org_input_height],
   input_size |-> << <<header.input_width, header.input_height>> >>]
\* The two size entries of decode's output, taken from the header read.
OutputSizes(header) ==
  [org_input_size |-> [height |-> header.org_input_height,
                       width  |-> header.org_input_width],
   input_size |-> << <<header.input_height, header.input_width>> >>]

\* The mapping decode returns under "data".
ReconData(header, cfg, lists) ==
  [i \in 1..Len(lists) |->
     [tag |-> ftensor_tag(i),
      t   |-> IF DecodeUpsamples(header, cfg)
                THEN Interpolate(Stack(lists[i]), 2, 1)
                ELSE Stack(lists[i])]]

\* What decode does with the file before its loop: it opens it and reads
\* the header.
DecodeOpenTrace == << Ev("open", "-", FALSE), Ev("sps.read", "-", FALSE) >>

\* decode, from its entry to the start of the loop (lines 259-282).
DecodeBegin ==
  LET header == SpsRead(file.sps) IN
  /\ pc = "idle"
  /\ calls < MaxCalls
  /\ calls' = calls + 1
  /\ op' = "decode"
  /\ ftensor_set_idx' = 0
  /\ IF ~file.exists
       THEN /\ pc' = "done"
            /\ result' = Raised("FileNotFoundError")
            /\ trace' = << >>
            /\ sps' = None
            /\ recon_ftensors' = << >>
            /\ UNCHANGED self_bitstream_fd
       ELSE IF header = None
       THEN /\ pc' = "done"
            /\ result' = Raised("BitstreamFormatError: header")
            /\ trace' = DecodeOpenTrace
            /\ sps' = None
            /\ recon_ftensors' = << >>
            /\ self_bitstream_fd' = "open"
       ELSE /\ pc' = "decode_loop"
            /\ result' = NoResult
            /\ trace' = DecodeOpenTrace
            /\ sps' = header
            /\ recon_ftensors' = [i \in 1..header[1].size_of_feature_set |-> << >>]
            /\ self_bitstream_fd' = "open"
  /\ UNCHANGED <<enc_cfg, feature_set_order_count, decoded_tensor_buffer, file,
                 enc_locals, written, sets_taken>>

\* DecodeSetsToRead stopping at the entries the file holds.
DecodeSetsToReadAvailable(header, f) ==
  IF Len(f.sets) < header.nbframes THEN Len(f.sets) ELSE header.nbframes
\* The number of passes of decode's loop: range(sps.nbframes), whatever
\* the file f holds after its header.
DecodeSetsToRead(header, f) == header.nbframes

\* CountAfterDecodedSet with decode counting its sets as encode does.
CountAfterDecodedSetIncremented(count) == count + 1
\* self.feature_set_order_count after a pass of decode's loop: the loop
\* has no statement on it.
CountAfterDecodedSet(count) == count

\* One pass of decode's loop (lines 283-291), or the exception that ends
\* the call when the file holds no further entry.
DecodeFeatureSet ==
  /\ pc = "decode_loop"
  /\ ftensor_set_idx < DecodeSetsToRead(sps[1], file)
  /\ IF ftensor_set_idx + 1 > Len(file.sets)
       THEN /\ pc' = "done"
            /\ result' = Raised("BitstreamFormatError: truncated")
            /\ trace' = Append(trace, Ev("parse_feature_tensor_coding_type", "-", FALSE))
            /\ UNCHANGED <<recon_ftensors, ftensor_set_idx, feature_set_order_count>>
       ELSE LET entry    == file.sets[ftensor_set_idx + 1]
                eFTCType == parse_feature_tensor_coding_type(entry)
                engine   == decode_feature_tensor(eFTCType)
            IN
            /\ pc' = "decode_loop"
            /\ recon_ftensors' = ZipAppend(recon_ftensors, DecodedSet(sps[1], entry))
            /\ ftensor_set_idx' = ftensor_set_idx + 1
            /\ trace' = trace \o
                 << Ev("parse_feature_tensor_coding_type", eFTCType, FALSE),
                    Ev(engine, EngineType(engine), DecodePassesReference(engine)) >>
            /\ feature_set_order_count' = CountAfterDecodedSet(feature_set_order_count)
            /\ UNCHANGED result
  /\ UNCHANGED <<enc_cfg, decoded_tensor_buffer, self_bitstream_fd, file, calls,
                 op, enc_locals, sps, written, sets_taken>>

\* decode after its loop: close_files(), stacking, the upsample and the
\* return value (lines 295-309).
DecodeReturn ==
  /\ pc = "decode_loop"
  /\ ftensor_set_idx = DecodeSetsToRead(sps[1], file)
  /\ pc' = "done"
  /\ self_bitstream_fd' = close_files(self_bitstream_fd)
  /\ trace' = Append(trace, Ev("close", "-", FALSE))
  /\ result' =
       IF StackFails(recon_ftensors) THEN Raised("RuntimeError: stack")
       ELSE Returned([org_input_size |-> OutputSizes(sps[1]).org_input_size,
                      input_size |-> OutputSizes(sps[1]).input_size,
                      data |-> ReconData(sps[1], enc_cfg, recon_ftensors)])
  /\ UNCHANGED <<enc_cfg, feature_set_order_count, decoded_tensor_buffer, file,
                 calls, op, enc_locals, dec_locals, written, sets_taken>>

\* The call has returned or raised: its frame and its locals are gone, the
\* caller has taken the result and goes on.
CallEnds ==
  /\ pc = "done"
  /\ pc' = "idle"
  /\ op' = "none"
  /\ input' = NoInput
  /\ input0' = NoInput
  /\ nbframes' = 0
  /\ bytes_total' = 0
  /\ bytes_per_ftensor_set' = << >>
  /\ channel_collections_by_cluster' = None
  /\ sps' = None
  /\ recon_ftensors' = << >>
  /\ ftensor_set_idx' = 0
  /\ result' = NoResult
  /\ trace' = << >>
  /\ UNCHANGED <<enc_cfg, session, file, calls, written, sets_taken>>

\* ------------------------------------------- a bitstream made elsewhere
\* What a returned encode call of a freshly constructed session with
\* configuration cfg leaves for the input inp (lines 156-249): the file,
\* and the record of what that call was given and chose.
EncodedTypes(cfg, n) ==
  [k \in 1..n |-> [ty |-> CodingType(cfg.intra_period, k - 1), k |-> k - 1]]

EncodedFile(cfg, inp) ==
  LET data1 == DataAfterDownsample(cfg, inp.data)
      n     == LayerNbframes(data1)[1]
      types == EncodedTypes(cfg, n)
  IN  [exists |-> TRUE,
       sps |-> SpsWrite([inp EXCEPT !.data = data1], n, cfg.qp[1],
                        cfg.qp_density, cfg.downsample, cfg.dc_qp_offset,
                        cfg.dc_qp_density_offset),
       sets |-> [k \in 1..n |->
                   CodedEntry(encode_feature_tensor(types[k].ty),
                              FeatureTensor(data1))]]

EncodedRecord(cfg, inp) ==
  LET data1 == DataAfterDownsample(cfg, inp.data)
      n     == LayerNbframes(data1)[1]
  IN  [by |-> inp, coded |-> data1,
       header |-> Some(SpsArgs([inp EXCEPT !.data = data1], n, cfg)),
       types |-> EncodedTypes(cfg, n), complete |-> TRUE]

\* The sessions that wrote such a bitstream and the inputs they were given:
\* those the call accepts and codes to the end.
ForeignConfigs == {c \in CodecConfigs : c.intra_period = 2}
ForeignInputs ==
  {inp \in Inputs :
     /\ Len(inp.data) = 2
     /\ inp.data[1].t.n = 2 /\ inp.data[2].t.n = 2
     /\ inp.data[1].t.h >= 2}
\* The configurations of the session that finds the bitstream: those of
\* the writers and others that differ from them in every setting.
OtherConfigs ==
  [qp : {Some(22)}, qp_density : {2}, dc_qp_offset : {1},
   dc_qp_density_offset : {0}, n_cluster : {3},
   intra_period : {1}, downsample : BOOLEAN]
DecoderConfigs ==
  {c \in CodecConfigs : c.intra_period \in {-1, 2}} \cup OtherConfigs

\* A session constructed where a bitstream written by another session lies.
InitForeign ==
  \E fcfg \in ForeignConfigs, finp \in ForeignInputs :
    /\ enc_cfg \in DecoderConfigs
    /\ pc = "new"
    /\ feature_set_order_count = ResetCount
    /\ decoded_tensor_buffer = << >>
    /\ self_bitstream_fd = "None"
    /\ file = EncodedFile(fcfg, finp)
    /\ calls = 0
    /\ op = "none"
    /\ input = NoInput
    /\ input0 = NoInput
    /\ nbframes = 0
    /\ bytes_total = 0
    /\ bytes_per_ftensor_set = << >>
    /\ channel_collections_by_cluster = None
    /\ sps = None
    /\ recon_ftensors = << >>
    /\ ftensor_set_idx = 0
    /\ result = NoResult
    /\ trace = << >>
    /\ written = EncodedRecord(fcfg, finp)
    /\ sets_taken = 0

\* ------------------------------------------------------ specifications
Next ==
  \/ Construct
  \/ Reset
  \/ \E inp \in Inputs : EncodeBegin(inp)
  \/ EncodeFeatureSet
  \/ EncodeReturn
  \/ DecodeBegin
  \/ DecodeFeatureSet
  \/ DecodeReturn
  \/ CallEnds

Spec == Init /\ [][Next]_vars
SpecConfig == InitConfig /\ [][Next]_vars
SpecForeign == InitForeign /\ [][Next]_vars

\* ================================================================ claims
EncodeEnded == pc = "done" /\ op = "encode"
EncodeReturned == EncodeEnded /\ result.outcome = "returned"
DecodeEnded == pc = "done" /\ op = "decode"
DecodeReturned == DecodeEnded /\ result.outcome = "returned"
TypesOf(types) == [i \in 1..Len(types) |-> types[i].ty]
UnequalTimeSteps(data) ==
  \E i, j \in 1..Len(data) : data[i].t.n # data[j].t.n

\* C1: with intra_period = -1 every set encode codes is Intra; with
\* intra_period = K > 0 the set that is the k-th (k = 0, 1, ...) the encode
\* loop has taken up since the last reset is Intra when k mod K = 0 and
\* InterPredicted otherwise. A 3-step input on a fresh session with
\* intra_period = 2 is coded as Intra, InterPredicted, Intra.
C1_CodingTypeSchedule ==
  /\ (enc_cfg.intra_period = -1 \/ enc_cfg.intra_period > 0) =>
       \A i \in 1..Len(written.types) :
         /\ written.types[i].ty \in {I_TYPE, PB_TYPE}
         /\ (written.types[i].ty = I_TYPE) <=>
              (enc_cfg.intra_period = -1
                 \/ written.types[i].k % enc_cfg.intra_period = 0)
  /\ (/\ EncodeReturned
      /\ enc_cfg.intra_period = 2
      /\ Len(written.types) = 3
      /\ written.types[1].k = 0)
       => TypesOf(written.types) = <<I_TYPE, PB_TYPE, I_TYPE>>

C1_Witness ==
  /\ EncodeReturned
  /\ enc_cfg.intra_period = 2
  /\ Len(result.value[1].bytes) = 3
  /\ written.types[1].k = 0
  /\ TypesOf(written.types) = <<I_TYPE, PB_TYPE, I_TYPE>>

\* C2: a configuration with qp = None, with qp_density outside 1..5 or with
\* qp_density + dc_qp_density_offset > 5 makes the constructor raise: the
\* session never becomes usable, no call is made on it and no file is
\* opened or written.
ConfigRejected(cfg) ==
  \/ cfg.qp = None
  \/ cfg.qp_density \notin 1..5
  \/ cfg.qp_density + cfg.dc_qp_density_offset > 5

C2_ConfigurationRejected ==
  (ConfigRejected(enc_cfg) /\ pc # "new") =>
    /\ pc = "failed"
    /\ result.outcome = "raised"
    /\ calls = 0
    /\ file = NoFile
    /\ self_bitstream_fd = "None"
    /\ trace = << >>

C2_Witness ==
  /\ pc = "failed"
  /\ enc_cfg.qp = None
  /\ enc_cfg.qp_density \in 1..5
  /\ enc_cfg.qp_density + enc_cfg.dc_qp_density_offset <= 5

\* C3: a configuration with n_cluster <= 0 makes the constructor raise, so
\* that no encode is started on such a session.
C3_NonPositiveNClusterRejected ==
  (enc_cfg.n_cluster <= 0 /\ pc # "new") => pc = "failed"

\* C4: an encode call whose input's tags differ in their number of time
\* steps ends by raising in its first step: the file is not opened (it is
\* left as it was, no header and no payload written), no engine is called
\* and the frame-order counter keeps its value.
C4_UnequalFramesRejectedBeforeOpen ==
  [][ (pc = "idle" /\ op' = "encode" /\ UnequalTimeSteps(input0'.data)) =>
        /\ pc' = "done"
        /\ result'.outcome = "raised"
        /\ trace' = << >>
        /\ file' = file
        /\ self_bitstream_fd' = self_bitstream_fd
        /\ feature_set_order_count' = feature_set_order_count ]_vars

C4_Witness ==
  /\ EncodeEnded
  /\ UnequalTimeSteps(input0.data)
  /\ result.error = "AssertionError"
  /\ file.exists
  /\ trace = << >>

\* C5 (as stated): the per-set byte counts a returned encode reports sum to
\* the size of the file minus the header's bytes.
C5_SumIsFileSizeMinusHeader ==
  EncodeReturned =>
    SumSeq(result.value[1].bytes) = FileSize(file) - Len(file.sps)

\* C5 (amended): the header's bytes are counted in the first entry. When at
\* least one set was coded the counts sum to the whole file size, the
\* first is header + marker + payload of the first set and every later one
\* is marker + payload of its set; with no set the list is empty and the
\* file holds the header alone.
C5_HeaderCountedInFirstEntry ==
  EncodeReturned =>
    LET b == result.value[1].bytes IN
    /\ Len(b) = Len(file.sets)
    /\ Len(b) = 0 => FileSize(file) = Len(file.sps)
    /\ Len(b) > 0 =>
         /\ SumSeq(b) = FileSize(file)
         /\ b[1] = Len(file.sps) + EntryBytes(file.sets[1])
         /\ \A i \in 2..Len(b) : b[i] = EntryBytes(file.sets[i])

C5_Witness ==
  /\ EncodeReturned
  /\ Len(result.value[1].bytes) >= 2
  /\ Len(file.sps) > 0
  /\ SumSeq(result.value[1].bytes) = FileSize(file)

\* C6: whatever encode calls were made before on the session, with or
\* without a reset between them, an encode call on an input whose tags all
\* have N time steps returns N byte counts and the path of the bitstream.
\* (Stated for intra_period = -1 or > 0 and tensors the downsample accepts.)
C6_EncodeAlwaysCompletes ==
  (/\ EncodeEnded
   /\ input0.data # << >>
   /\ ~UnequalTimeSteps(input0.data)
   /\ (enc_cfg.intra_period = -1 \/ enc_cfg.intra_period > 0)
   /\ \A i \in 1..Len(input0.data) :
        input0.data[i].t.h >= 2 /\ input0.data[i].t.w >= 2)
  => /\ result.outcome = "returned"
     /\ Len(result.value[1].bytes) = input0.data[1].t.n
     /\ result.value[1].bitstream = BitstreamPath

\* C7: in an encode call the header is written at most once, exactly once
\* when the call reaches its loop, and before any clustering, suppression
\* or engine call; in a decode call the header is read at most once,
\* exactly once when the call reaches its loop, and before any marker is
\* read or decoder called.
Positions(name) == {i \in 1..Len(trace) : trace[i].ev = name}
EncodeSetEvents ==
  {"search_for_N_clusters", "feature_channel_suppression", "intra_coding", "inter_coding"}
DecodeSetEvents ==
  {"parse_feature_tensor_coding_type", "intra_decoding", "inter_decoding"}
HeaderOnceAndFirst(header_event, set_events, in_loop) ==
  /\ Cardinality(Positions(header_event)) <= 1
  /\ \A i \in 1..Len(trace) :
       trace[i].ev \in set_events =>
         \E j \in 1..(i - 1) : trace[j].ev = header_event
  /\ in_loop => Cardinality(Positions(header_event)) = 1

C7_HeaderOnceAndFirst ==
  /\ op = "encode" =>
       /\ HeaderOnceAndFirst("sps.write", EncodeSetEvents,
                             pc = "encode_loop" \/ EncodeReturned)
       /\ (pc = "encode_loop" \/ EncodeReturned) => SpsRead(file.sps) # None
  /\ op = "decode" =>
       HeaderOnceAndFirst("sps.read", DecodeSetEvents,
                          pc = "decode_loop" \/ DecodeReturned)

C7_Witness ==
  /\ DecodeReturned
  /\ ftensor_set_idx >= 2
  /\ trace[2].ev = "sps.read"
  /\ trace[3].ev = "parse_feature_tensor_coding_type"
  /\ Len(file.sets) >= 2

\* C8: the bitstream a returned encode leaves is the header followed by as
\* many entries as the header's total_frame_sets says, one per time step of
\* the input; a decode of it reads, after the header, one marker and then
\* one payload per entry, never more than total_frame_sets of them, and
\* has read exactly total_frame_sets when it ends.
C8_Framing ==
  /\ written.complete =>
       /\ SpsRead(file.sps) # None
       /\ SpsRead(file.sps)[1].nbframes = Len(file.sets)
       /\ Len(file.sets) = written.by.data[1].t.n
       /\ Len(file.sets) = Len(written.types)
  /\ (written.complete /\ op = "decode" /\ pc \in {"decode_loop", "done"}) =>
       /\ ftensor_set_idx <= Len(file.sets)
       /\ Len(trace) = 2 + 2 * ftensor_set_idx + (IF pc = "done" THEN 1 ELSE 0)
       /\ \A k \in 1..ftensor_set_idx :
            /\ trace[2 * k + 1].ev = "parse_feature_tensor_coding_type"
            /\ trace[2 * k + 2].ev \in {"intra_decoding", "inter_decoding"}
       /\ pc = "done" =>
            /\ ftensor_set_idx = SpsRead(file.sps)[1].nbframes
            /\ trace[Len(trace)].ev = "close"

C8_Witness ==
  /\ DecodeReturned
  /\ written.complete
  /\ sps[1].nbframes = 3
  /\ ftensor_set_idx = 3
  /\ Len(file.sets) = 3

\* C9: the coding types decode reads from the markers, and the decoders it
\* calls for them, are position by position the coding types the encode
\* call that wrote the bitstream chose.
C9_CodingTypeSymmetry ==
  (file.exists /\ op = "decode" /\ pc \in {"decode_loop", "done"}) =>
    /\ ftensor_set_idx <= Len(written.types)
    /\ \A k \in 1..ftensor_set_idx :
         /\ trace[2 * k + 1].ty = written.types[k].ty
         /\ trace[2 * k + 2].ev =
              (IF written.types[k].ty = I_TYPE THEN "intra_decoding"
               ELSE "inter_decoding")
         /\ trace[2 * k + 2].ty = written.types[k].ty
    /\ (pc = "done" /\ written.complete) => ftensor_set_idx = Len(written.types)

C9_Witness ==
  /\ DecodeReturned
  /\ written.complete
  /\ TypesOf(written.types) = <<I_TYPE, PB_TYPE, I_TYPE>>
  /\ trace[4].ev = "intra_decoding"
  /\ trace[6].ev = "inter_decoding"
  /\ trace[8].ev = "intra_decoding"

\* C10 (as stated): a returned decode of a bitstream a returned encode wrote
\* gives the tag set of the encode input, and for every tag the input's
\* number of time steps, channel count and spatial size.
C10_SameTagsAndShape ==
  (DecodeReturned /\ written.complete) =>
    LET out == result.value[1].data
        inp == written.by.data
    IN  /\ {out[j].tag : j \in 1..Len(out)} = {inp[i].tag : i \in 1..Len(inp)}
        /\ \A i \in 1..Len(inp) : \E j \in 1..Len(out) :
             /\ out[j].tag = inp[i].tag
             /\ out[j].t.n = inp[i].t.n
             /\ out[j].t.c = inp[i].t.c
             /\ out[j].t.h = inp[i].t.h
             /\ out[j].t.w = inp[i].t.w

\* C10 (amended): decode of a bitstream a returned encode wrote for an
\* input with at least one time step returns; its mapping has one entry
\* per input tag, keyed by the tag's position 0..n-1 in the input instead
\* of the tag, with the input's number of time steps and channel count;
\* the spatial size is the input's when the encode did not downsample and
\* 2 * floor(d / 2) per dimension when it did (one less than an odd d).
RoundTripSize(d, downsample) == IF downsample THEN 2 * (d \div 2) ELSE d

C10_ShapeByPosition ==
  (DecodeEnded /\ written.complete) =>
    LET inp == written.by.data IN
    /\ inp[1].t.n >= 1 => result.outcome = "returned"
    /\ result.outcome = "returned" =>
         LET out == result.value[1].data IN
         /\ Len(out) = Len(inp)
         /\ \A i \in 1..Len(inp) :
              /\ out[i].tag = ToString(i - 1)
              /\ out[i].t.n = inp[i].t.n
              /\ out[i].t.c = inp[i].t.c
              /\ out[i].t.h = RoundTripSize(inp[i].t.h, enc_cfg.downsample)
              /\ out[i].t.w = RoundTripSize(inp[i].t.w, enc_cfg.downsample)

C10_Witness ==
  /\ DecodeReturned
  /\ written.complete
  /\ enc_cfg.downsample
  /\ Len(written.by.data) = 2
  /\ written.by.data[1].t.h = 3
  /\ result.value[1].data[1].t.h = 2
  /\ result.value[1].data[2].tag = "1"

\* C11: the header values decode obtains from a bitstream (total_frame_sets,
\* qp, qp_density, the downsample flag, dc_qp_offset, dc_qp_density_offset,
\* the original and the coded size, the tag count) are the values the
\* encode call that wrote the bitstream handed to the header writer, and
\* the sizes decode returns are those values.
HeaderFields ==
  {"nbframes", "qp", "qp_density", "is_downsampled", "dc_qp_offset",
   "dc_qp_density_offset", "org_input_height", "org_input_width",
   "input_height", "input_width", "size_of_feature_set"}

Truncated(f) ==
  /\ f.exists
  /\ SpsRead(f.sps) # None
  /\ Len(f.sets) < SpsRead(f.sps)[1].nbframes

C12_TruncatedNeverDecoded ==
  /\ (DecodeEnded /\ Truncated(file)) =>
       /\ result.outcome = "raised"
       /\ result.error = "BitstreamFormatError: truncated"
       /\ result.value = None
       /\ ftensor_set_idx = Len(file.sets)
  /\ (EncodeEnded /\ result.outcome = "raised" /\ trace # << >>) =>
       Truncated(file)

C12_Witness ==
  /\ DecodeEnded
  /\ Truncated(file)
  /\ Len(file.sets) >= 1
  /\ ftensor_set_idx = Len(file.sets)
  /\ Len(recon_ftensors[1]) >= 1
  /\ result.outcome = "raised"

\* C13: on a session with a valid intra_period, whenever a call that opened
\* the bitstream file has ended, by returning or by raising, the handle it
\* opened is closed; no handle is open between two calls.
ValidIntraPeriod == enc_cfg.intra_period = -1 \/ enc_cfg.intra_period > 0

C13_HandleReleased ==
  ValidIntraPeriod =>
    /\ (pc = "done" /\ Positions("open") # {}) => self_bitstream_fd = "closed"
    /\ pc = "idle" => self_bitstream_fd # "open"

\* C14 (as stated): every set processed, encoded or decoded, raises the
\* frame-order counter by one.
SetEncoded == pc = "encode_loop" /\ Len(file'.sets) = Len(file.sets) + 1
SetDecoded == pc = "decode_loop" /\ ftensor_set_idx' = ftensor_set_idx + 1

C14_CountsEncodedAndDecodedSets ==
  [][ (SetEncoded \/ SetDecoded) =>
        feature_set_order_count' = feature_set_order_count + 1 ]_vars

\* C14 (amended): the counter is -1 after construction and after reset and
\* is raised once for every set encode's loop takes up, before the type of
\* the set is decided (so the first such set has poc 0); decode never
\* changes it. After any sequence of calls since the last reset the counter
\* is the number of sets encode has taken up, less one.
C14_CountsSetsTakenUpByEncode ==
  pc # "new" => feature_set_order_count = sets_taken - 1

C14_Witness ==
  /\ DecodeReturned
  /\ ftensor_set_idx = 2
  /\ sets_taken = 2
  /\ feature_set_order_count = 1

\* C15: a reset() call, made in whatever state the earlier calls have left
\* the session, puts the frame-order counter back to its initial value,
\* empties the reference buffer, leaves no cluster assignment bound and
\* leaves the configuration as it was; the next set encode takes up has
\* poc 0, is Intra-type (for intra_period = -1 or > 0) and is suppressed
\* with an assignment computed for it.
ResetCall == pc = "idle" /\ pc' = "idle" /\ calls' = calls + 1
FirstSetSinceReset == pc = "encode_loop" /\ sets_taken = 0 /\ sets_taken' = 1

C15_ResetReturnsToIdle ==
  [][ /\ ResetCall =>
           /\ feature_set_order_count' = -1
           /\ decoded_tensor_buffer' = << >>
           /\ channel_collections_by_cluster' = None
           /\ sets_taken' = 0
           /\ enc_cfg' = enc_cfg
      /\ (FirstSetSinceReset /\ ValidIntraPeriod) =>
           /\ feature_set_order_count' = 0
           /\ CodingType(enc_cfg.intra_period, feature_set_order_count') = I_TYPE
           /\ pc' = "encode_loop" =>
                /\ written'.types[Len(written'.types)] = [ty |-> I_TYPE, k |-> 0]
                /\ channel_collections_by_cluster' =
                     Some(search_for_N_clusters(0, enc_cfg.n_cluster)) ]_vars

C15_Witness ==
  /\ pc = "idle"
  /\ calls >= 2
  /\ Len(file.sets) >= 2
  /\ self_bitstream_fd = "None"
  /\ feature_set_order_count = -1
  /\ sets_taken = 0
  /\ enc_cfg.intra_period = 2

\* C16: on a session with intra_period = -1 or > 0, for every set an
\* encode call takes up, clustering is called if and only if the set is
\* Intra-type, and suppression is called, with the assignment computed at
\* the most recent Intra-type set (the set itself when it is Intra-type).
TakesUpSet ==
  pc = "encode_loop" /\ feature_set_order_count' = feature_set_order_count + 1
NewEvents == SubSeq(trace', Len(trace) + 1, Len(trace'))
LastIntraPoc(intra_period, poc) ==
  IF intra_period = -1 THEN poc ELSE poc - (poc % intra_period)
SuppressedWith(events, assignment) ==
  \E i \in 1..Len(events) :
    /\ events[i].ev = "feature_channel_suppression"
    /\ events[i].with = assignment

C16_ClusteringAndSuppressionPerSet ==
  [][ (TakesUpSet /\ ValidIntraPeriod) =>
        LET poc == feature_set_order_count'
            ty  == CodingType(enc_cfg.intra_period, poc)
        IN  /\ (ty = I_TYPE) <=>
                 (\E i \in 1..Len(NewEvents) :
                    NewEvents[i].ev = "search_for_N_clusters")
            /\ SuppressedWith(NewEvents,
                  search_for_N_clusters(LastIntraPoc(enc_cfg.intra_period, poc),
                                        enc_cfg.n_cluster)) ]_vars

\* C17: when an encode call on a session with intra_period > 0 begins with
\* an InterPredicted-type set (the counter carried over from an earlier
\* call), the call goes on and that set is suppressed with the assignment
\* computed at the most recent Intra-type set, which the earlier call took.
C17_AssignmentOutlivesCall ==
  [][ (/\ TakesUpSet
       /\ ValidIntraPeriod
       /\ bytes_per_ftensor_set = << >>
       /\ CodingType(enc_cfg.intra_period, feature_set_order_count') = PB_TYPE)
      => /\ pc' = "encode_loop"
         /\ result'.outcome # "raised"
         /\ SuppressedWith(NewEvents,
               search_for_N_clusters(
                 LastIntraPoc(enc_cfg.intra_period, feature_set_order_count'),
                 enc_cfg.n_cluster)) ]_vars

\* C18: once decode has processed a set, the session's reference buffer
\* holds the reconstruction of the set processed last, and nothing else.
C18_ReferenceHoldsLastDecodedSet ==
  (op = "decode" /\ pc \in {"decode_loop", "done"} /\ ftensor_set_idx >= 1) =>
    decoded_tensor_buffer =
      << DecodedSet(sps[1], file.sets[ftensor_set_idx]) >>

\* C19: every call of the inter engine, in encode and in decode, has the
\* session's reference buffer among its arguments, and no call of the
\* intra engine has.
C19_ReferencePassedToInterEngine ==
  \A i \in 1..Len(trace) :
    /\ trace[i].ev \in {"inter_coding", "inter_decoding"} => trace[i].ref
    /\ trace[i].ev \in {"intra_coding", "intra_decoding"} => ~trace[i].ref

\* C20: decode upsamples every tag by 2 if and only if the header of the
\* bitstream carries the downsample flag, and the flag is set if and only
\* if the encode call that wrote the bitstream applied the 0.5 downsample;
\* the downsample setting of the session that decodes has no part in it.
DownsampleApplied(w) == w.coded = Downsampled(w.by.data)
UpsampledFrom(out, coded) ==
  /\ out.v = "interp"
  /\ out.h = 2 * coded.h
  /\ out.w = 2 * coded.w
StackedFrom(out, coded) ==
  /\ out.v = "recon"
  /\ out.h = coded.h
  /\ out.w = coded.w

C20_UpsampleFollowsHeaderFlag ==
  file.exists =>
    LET flag == SpsRead(file.sps)[1].is_downsampled IN
    /\ flag <=> DownsampleApplied(written)
    /\ ~flag <=> written.coded = written.by.data
    /\ DecodeReturned =>
         LET out == result.value[1].data IN
         /\ Len(out) = Len(written.coded)
         /\ \A i \in 1..Len(out) :
              IF flag THEN UpsampledFrom(out[i].t, written.coded[i].t)
              ELSE StackedFrom(out[i].t, written.coded[i].t)

C20_Witness ==
  /\ DecodeReturned
  /\ ~enc_cfg.downsample
  /\ sps[1].is_downsampled
  /\ DownsampleApplied(written)
  /\ Len(result.value[1].data) = 2
  /\ UpsampledFrom(result.value[1].data[2].t, written.coded[2].t)

\* C21: whatever encode calls were made on the session, with or without a
\* reset between them, a bitstream that holds an entry after its header
\* holds an Intra-type one first: the first set an encode call codes is
\* given to the intra engine and its marker is the Intra marker. (A call
\* that begins with an InterPredicted-type set ends before it writes an
\* entry; its bitstream holds the header alone.)
EngineEvents ==
  {i \in 1..Len(trace) : trace[i].ev \in {"intra_coding", "inter_coding"}}

C21_FirstEntryIsIntra ==
  /\ (file.exists /\ file.sets # << >>) =>
       /\ parse_feature_tensor_coding_type(file.sets[1]) = I_TYPE
       /\ written.types[1].ty = I_TYPE
  /\ (op = "encode" /\ EngineEvents # {}) =>
       \E i \in EngineEvents :
         /\ trace[i].ev = "intra_coding"
         /\ \A j \in EngineEvents : i <= j
  /\ (EncodeEnded /\ result.error = "UnboundLocalError") => file.sets = << >>

C21_Witness ==
  /\ EncodeReturned
  /\ enc_cfg.intra_period = 2
  /\ Len(file.sets) = 1
  /\ written.types[1] = [ty |-> I_TYPE, k |-> 2]
  /\ parse_feature_tensor_coding_type(file.sets[1]) = I_TYPE

\* C22: on a session whose intra_period is neither -1 nor positive, no
\* encode call writes a byte of a bitstream: the file is never created, the
\* header never written, and the per-set type decision (where the modulo
\* by zero is taken) never reached.
C22_InvalidIntraPeriodRejectedEarly ==
  ~ValidIntraPeriod =>
    /\ ~file.exists
    /\ Positions("sps.write") = {}
    /\ result.error # "ZeroDivisionError"
    /\ feature_set_order_count = ResetCount

\* C23: when an encode call has ended, by returning or by raising, the
\* mapping the caller passed in holds for every tag the tensor it held
\* before the call.
C23_InputUnchanged ==
  EncodeEnded => input = input0

\* C24: what a decode call does and returns is determined by the bitstream
\* alone. Whatever the configuration of the session and whatever calls it
\* has served before, a decode call that has ended has made the marker
\* reads and engine calls, with the arguments, that the file's header and
\* entries give, and has returned the sizes, tags, numbers of time steps
\* and tensor sizes they give (or raised the error they give).
SetsRead(f) ==
  LET n == SpsRead(f.sps)[1].nbframes
  IN  IF Len(f.sets) < n THEN Len(f.sets) ELSE n

DecodeTraceOf(f) ==
  LET m == SetsRead(f)
      marker(k) == IF f.sets[k].marker = 0 THEN I_TYPE ELSE PB_TYPE
      calls_made ==
        [j \in 1..(2 * m) |->
           LET k == (j + 1) \div 2 IN
           IF j % 2 = 1
             THEN [ev |-> "parse_feature_tensor_coding_type",
                   ty |-> marker(k), ref |-> FALSE]
             ELSE [ev |-> IF marker(k) = I_TYPE THEN "intra_decoding"
                          ELSE "inter_decoding",
                   ty |-> marker(k), ref |-> FALSE]]
      last ==
        IF m < SpsRead(f.sps)[1].nbframes
          THEN [ev |-> "parse_feature_tensor_coding_type", ty |-> "-", ref |-> FALSE]
          ELSE [ev |-> "close", ty |-> "-", ref |-> FALSE]
  IN  << [ev |-> "open", ty |-> "-", ref |-> FALSE],
         [ev |-> "sps.read", ty |-> "-", ref |-> FALSE] >>
        \o calls_made \o << last >>

DecodeValueOf(f) ==
  LET h == SpsRead(f.sps)[1]
      factor == IF h.is_downsampled THEN 2 ELSE 1
  IN  [org_input_size |-> [height |-> h.org_input_height,
                           width  |-> h.org_input_width],
       input_size |-> << <<h.input_height, h.input_width>> >>,
       data |-> [i \in 1..h.size_of_feature_set |->
                   [tag |-> ToString(i - 1),
                    t |-> [n |-> h.nbframes,
                           c |-> f.sets[1].groups[i],
                           h |-> factor * h.shapes[i].h,
                           w |-> factor * h.shapes[i].w,
                           v |-> IF h.is_downsampled THEN "interp" ELSE "recon"]]]]

DecodeResultOf(f) ==
  IF ~f.exists THEN Raised("FileNotFoundError")
  ELSE IF SetsRead(f) < SpsRead(f.sps)[1].nbframes
    THEN Raised("BitstreamFormatError: truncated")
  ELSE IF SpsRead(f.sps)[1].nbframes = 0 /\ SpsRead(f.sps)[1].size_of_feature_set > 0
    THEN Raised("RuntimeError: stack")
  ELSE Returned(DecodeValueOf(f))

C24_DecodeDeterminedByBitstream ==
  DecodeEnded =>
    /\ result = DecodeResultOf(file)
    /\ file.exists => trace = DecodeTraceOf(file)
    /\ ~file.exists => trace = << >>

C24_Witness ==
  /\ DecodeReturned
  /\ enc_cfg.qp = Some(22)
  /\ enc_cfg.downsample
  /\ ~sps[1].is_downsampled
  /\ sps[1].qp = 30
  /\ calls = 3
  /\ sets_taken = 0
  /\ result = DecodeResultOf(file)
  /\ Len(trace) = 7

====
